---- MODULE Spec2Model ----
(***************************************************************************)
(* dco3: the OAuth2 session manager (src/src/auth/mod.rs).                 *)
(*                                                                         *)
(* A DracoonClient is built from a DracoonClientBuilder, connected with    *)
(* one of three OAuth2 flows, asked for authorization headers by several   *)
(* callers (get_auth_header takes &self and suspends at the refresh        *)
(* request), and finally disconnected.  connect and disconnect take self   *)
(* by value: when they return Err the client they consumed is dropped.     *)
(***************************************************************************)
EXTENDS Integers, Sequences, FiniteSets, TLC

(***************************************************************************)
(* Bounds of the model.                                                    *)
(***************************************************************************)
\* the clock runs from 0 to MaxTime ticks
MaxTime == 4
\* clock ticks per second: time stamps are finer than whole seconds
TicksPerSec == 2
\* at most MaxLog requests are sent over one connection
MaxLog == 3
\* tasks that share one Connected client by reference
NumCallers == 2

Callers == 1..NumCallers

\* Option<T>: None, or Some(v) holding v
None == <<>>
Some(v) == <<v>>
IsSome(o) == o # <<>>
Unwrap(o) == o[1]

\* an absent string argument of a flow
Absent == "-"

(***************************************************************************)
(* Values.                                                                 *)
(***************************************************************************)
\* Result<T, DracoonClientError>
Ok(v) == [ok |-> TRUE, val |-> Some(v), err |-> None]
Err(e) == [ok |-> FALSE, val |-> None, err |-> Some(e)]
OkVal(r) == Unwrap(r.val)

\* a URL string as the builder receives it: scheme "" is a relative
\* reference, which Url::parse rejects
UrlString(scheme, host, path) == [scheme |-> scheme, host |-> host, path |-> path]

MockBase == UrlString("https", "mock", "")
AppCallback == UrlString("https", "app", "/cb")
RelativeRef == UrlString("", "mock", "")

\* Url::parse: an absolute URL is normalised (empty path becomes "/"),
\* anything else is an error
Url_parse(s) ==
    IF s.scheme = ""
    THEN Err("InvalidUrl")
    ELSE Ok([s EXCEPT !.path = IF @ = "" THEN "/" ELSE @])

\* Url::join of a relative path on a base whose path ends in "/"
Url_join(base, rel) == [base EXCEPT !.path = @ \o rel]

\* Url::as_str: the serialisation of a parsed URL
Url_as_str(u) == u.scheme \o "://" \o u.host \o u.path

DRACOON_TOKEN_URL == "oauth/token"
DRACOON_TOKEN_REVOKE_URL == "oauth/revoke"
TOKEN_TYPE_HINT_ACCESS_TOKEN == "access_token"
TOKEN_TYPE_HINT_REFRESH_TOKEN == "refresh_token"

\* the builder configurations tried
BuilderConfigs ==
    [base_url : {None, Some(RelativeRef), Some(MockBase)},
     redirect_uri : {None, Some(AppCallback)},
     client_id : {None, Some("cid")},
     client_secret : {None, Some("csec")}]

\* the builder configurations tried on the builder alone: fields missing,
\* empty, unparseable and well-formed
DracoonBuilderConfigs ==
    [base_url : {None, Some(RelativeRef), Some(MockBase)},
     redirect_uri : {None, Some(RelativeRef), Some(AppCallback)},
     client_id : {None, Some(""), Some("cid")},
     client_secret : {None, Some(""), Some("csec")}]

\* the encryption passwords given to DracoonBuilder::with_encryption_password
EncryptionSecrets == {None, Some("secret")}

\* the OAuth2 flows tried
OAuth2Flows ==
    { [kind |-> "PasswordFlow", username |-> "user", password |-> "pw", code |-> Absent, token |-> Absent],
      [kind |-> "AuthCodeFlow", username |-> Absent, password |-> Absent, code |-> "xyz", token |-> Absent],
      [kind |-> "RefreshToken", username |-> Absent, password |-> Absent, code |-> Absent, token |-> "R0"] }

\* token responses the server issues
TokenResponses ==
    { [access_token |-> "A1", refresh_token |-> "R1", expires_in |-> 1],
      [access_token |-> "A2", refresh_token |-> "R2", expires_in |-> 2] }

\* what happens to a request: a response with a status and a body, or no
\* response at all (the request could not be sent or answered)
Response(status, body) == [kind |-> "response", status |-> status, body |-> Some(body)]
TransportError == [kind |-> "transport_error", status |-> 0, body |-> None]

TokenOutcomes ==
    { Response(200, t) : t \in TokenResponses }
    \cup { Response(401, "invalid_grant"), TransportError }

RevokeOutcomes == { Response(200, "ok"), Response(400, "invalid_request"), TransportError }

\* the outcomes of a revoke request that is sent only when selected
RevokeOutcomesIf(selected) == IF selected THEN RevokeOutcomes ELSE { Response(200, "ok") }

\* a client that does not exist (never built, or consumed by a failed call)
NoClient ==
    [tag |-> "None", base_url |-> UrlString("", "", ""), redirect_uri |-> None,
     client_id |-> "", client_secret |-> "", connection |-> None]

\* a get_auth_header call: while it is pending, the time it was made; once it
\* has returned, its Result, the token pair the header was taken from,
\* whether that pair was expired when the call was made, what became of the
\* refresh request (if any) and the number of requests sent
NoReturn ==
    [status |-> "none", res |-> None, called_at |-> 0, expired_at_call |-> FALSE,
     connection |-> None, outcome |-> None, posts |-> 0]

\* what the last build / connect / disconnect did: its arguments, the client
\* it was called on, the requests it sent, what became of them, and the
\* Result it returned
NoOut ==
    [op |-> "none", args |-> <<>>, before |-> NoClient, reqs |-> <<>>,
     outcomes |-> <<>>, ok |-> FALSE, err |-> None]

VARIABLES
    client,     \* the DracoonClient value the program holds
    now,        \* Utc::now(), in ticks
    log,        \* the requests sent since the last build / connect / disconnect began
    out,        \* what the last build / connect / disconnect returned
    pc,         \* per caller: where its get_auth_header call stands
    ret,        \* per caller: what its last get_auth_header call returned
    up,         \* the upload() call in progress: its arguments, locals and position
    ulog,       \* the requests that upload() call has sent, each with its answer
    dstate,     \* the Dracoon value around the client: its other fields, and
                \* what the last get_keypair call on it returned
    authorize_url   \* what the last get_authorize_url call on the session returned

vars == <<client, now, log, out, pc, ret, up, ulog, dstate, authorize_url>>

\* the session manager's variables, and the uploader's
avars == <<client, now, log, out, pc, ret, authorize_url>>
uvars == <<up, ulog>>

(***************************************************************************)
(* Collaborators that live outside src/ (auth/models.rs).                  *)
(***************************************************************************)
\* OAuth2TokenResponse::from_response: 2xx parses the body, anything else
\* is an Auth error
FromResponse(res) ==
    IF res.status >= 200 /\ res.status < 300
    THEN Ok(Unwrap(res.body))
    ELSE Err("Auth")

\* impl From<OAuth2TokenResponse> for Connection: issued_at = now()
IntoConnection(tok, t) ==
    [access_token |-> tok.access_token, refresh_token |-> tok.refresh_token,
     expires_in |-> tok.expires_in, connected_at |-> t]

\* chrono::Duration::num_seconds: whole seconds, truncated towards zero
num_seconds(d) == IF d >= 0 THEN d \div TicksPerSec ELSE -((-d) \div TicksPerSec)

\* .send().await? followed by from_response(res).await?.into()
TokenResult(outcome, t) ==
    IF outcome.kind = "transport_error"
    THEN Err("Reqwest")
    ELSE LET parsed == FromResponse(outcome)
         IN IF parsed.ok THEN Ok(IntoConnection(OkVal(parsed), t)) ELSE parsed

(***************************************************************************)
(* DracoonClientBuilder::build                                             *)
(***************************************************************************)
\* variant: the client id is looked at before the base URL
build_checks_client_id_first(b) ==
    IF ~IsSome(b.client_id) THEN Err("MissingClientId")
    ELSE IF ~IsSome(b.base_url) THEN Err("MissingBaseUrl")
    ELSE LET base_url == Url_parse(Unwrap(b.base_url)) IN
    IF ~base_url.ok THEN base_url
    ELSE IF ~IsSome(b.client_secret) THEN Err("MissingClientSecret")
    ELSE LET redirect_uri ==
                 IF IsSome(b.redirect_uri)
                 THEN Url_parse(Unwrap(b.redirect_uri))
                 ELSE Url_parse([Unwrap(b.base_url) EXCEPT !.path = @ \o "/oauth/callback"])
         IN IF ~redirect_uri.ok THEN redirect_uri
            ELSE Ok([tag |-> "Disconnected",
                     base_url |-> OkVal(base_url),
                     redirect_uri |-> Some(OkVal(redirect_uri)),
                     client_id |-> Unwrap(b.client_id),
                     client_secret |-> Unwrap(b.client_secret),
                     connection |-> None])

build(b) ==
    IF ~IsSome(b.base_url) THEN Err("MissingBaseUrl")
    ELSE LET base_url == Url_parse(Unwrap(b.base_url)) IN
    IF ~base_url.ok THEN base_url
    ELSE IF ~IsSome(b.client_id) THEN Err("MissingClientId")
    ELSE IF ~IsSome(b.client_secret) THEN Err("MissingClientSecret")
    ELSE LET redirect_uri ==
                 IF IsSome(b.redirect_uri)
                 THEN Url_parse(Unwrap(b.redirect_uri))
                 ELSE Url_parse([Unwrap(b.base_url) EXCEPT !.path = @ \o "/oauth/callback"])
         IN IF ~redirect_uri.ok THEN redirect_uri
            ELSE Ok([tag |-> "Disconnected",
                     base_url |-> OkVal(base_url),
                     redirect_uri |-> Some(OkVal(redirect_uri)),
                     client_id |-> Unwrap(b.client_id),
                     client_secret |-> Unwrap(b.client_secret),
                     connection |-> None])

\* the fields of a Dracoon value other than its client, and what the last
\* get_keypair call on it returned
NoDracoon ==
    [user_info |-> None, keypair |-> None, encryption_secret |-> None,
     get_keypair |-> None]
DracoonFields(d) ==
    [user_info |-> d.user_info, keypair |-> d.keypair,
     encryption_secret |-> d.encryption_secret, get_keypair |-> None]

\* DracoonBuilder::build: let dracoon = self.client_builder.build()?
DracoonBuilder_build(b, encryption_secret) ==
    LET dracoon == build(b)
    IN IF ~dracoon.ok THEN dracoon
       ELSE Ok([client |-> OkVal(dracoon), user_info |-> None, keypair |-> None,
                encryption_secret |-> encryption_secret])

(***************************************************************************)
(* impl DracoonClient<Disconnected>                                        *)
(***************************************************************************)
\* base64 (URL-safe alphabet, no padding) of "client_id:client_secret"
client_credentials(self) ==
    [encoding |-> "base64url_nopad", of |-> self.client_id \o ":" \o self.client_secret]

\* variant: the authorize URL always names the default callback
get_authorize_url_default_redirect(self) ==
    LET default_redirect == Url_join(self.base_url, "oauth/callback")
    IN [self |-> self,
        url |-> [url |-> Url_join(self.base_url, "oauth/authorize"),
                 query |-> [response_type |-> "code",
                            client_id |-> self.client_id,
                            redirect_uri |-> [encoding |-> "form_urlencoded",
                                              of |-> Url_as_str(default_redirect)],
                            scope |-> "all"]]]

\* get_authorize_url(&mut self): the session with the redirect URI recorded,
\* and the URL returned; append_pair writes each value form-urlencoded
get_authorize_url(self) ==
    LET default_redirect == Url_join(self.base_url, "oauth/callback")
        redirect_uri == IF IsSome(self.redirect_uri) THEN Unwrap(self.redirect_uri)
                        ELSE default_redirect
    IN [self |-> [self EXCEPT !.redirect_uri = Some(redirect_uri)],
        url |-> [url |-> Url_join(self.base_url, "oauth/authorize"),
                 query |-> [response_type |-> "code",
                            client_id |-> self.client_id,
                            redirect_uri |-> [encoding |-> "form_urlencoded",
                                              of |-> Url_as_str(redirect_uri)],
                            scope |-> "all"]]]

get_token_url(self) == Url_join(self.base_url, DRACOON_TOKEN_URL)

TokenRequest(url, authorization, form) ==
    [method |-> "POST", url |-> url, authorization |-> authorization, form |-> form]

connect_password_flow(self, username, password, outcome, t) ==
    [req |-> TokenRequest(get_token_url(self),
                          Some([scheme |-> "Basic", credentials |-> client_credentials(self)]),
                          [grant_type |-> "password", username |-> username,
                           password |-> password]),
     res |-> TokenResult(outcome, t)]

connect_authcode_flow(self, code, outcome, t) ==
    [req |-> TokenRequest(get_token_url(self), None,
                          [grant_type |-> "authorization_code",
                           client_id |-> self.client_id,
                           client_secret |-> self.client_secret,
                           code |-> code,
                           redirect_uri |-> Unwrap(self.redirect_uri)]),
     res |-> TokenResult(outcome, t)]

\* variant: the Connection keeps the refresh token that was sent
connect_refresh_token_keeps_sent(self, refresh_token, outcome, t) ==
    LET res == TokenResult(outcome, t)
    IN [req |-> TokenRequest(get_token_url(self), None,
                             [grant_type |-> "refresh_token",
                              client_id |-> self.client_id,
                              client_secret |-> self.client_secret,
                              refresh_token |-> refresh_token]),
        res |-> IF res.ok
                THEN Ok([OkVal(res) EXCEPT !.refresh_token = refresh_token])
                ELSE res]

connect_refresh_token(self, refresh_token, outcome, t) ==
    [req |-> TokenRequest(get_token_url(self), None,
                          [grant_type |-> "refresh_token",
                           client_id |-> self.client_id,
                           client_secret |-> self.client_secret,
                           refresh_token |-> refresh_token]),
     res |-> TokenResult(outcome, t)]

\* variant: a failed token request still yields a Connected client, with an
\* empty token pair
connect_ignores_failure(self, oauth_flow, outcome, t) ==
    LET flow == CASE oauth_flow.kind = "PasswordFlow" ->
                        connect_password_flow(self, oauth_flow.username,
                                              oauth_flow.password, outcome, t)
                  [] oauth_flow.kind = "AuthCodeFlow" ->
                        connect_authcode_flow(self, oauth_flow.code, outcome, t)
                  [] oauth_flow.kind = "RefreshToken" ->
                        connect_refresh_token(self, oauth_flow.token, outcome, t)
        connection == IF flow.res.ok THEN OkVal(flow.res)
                      ELSE [access_token |-> "", refresh_token |-> "",
                            expires_in |-> 0, connected_at |-> t]
    IN [reqs |-> <<flow.req>>,
        res |-> Ok([self EXCEPT !.tag = "Connected", !.connection = Some(connection)])]

\* connect: the request it sends and the Result it returns
connect(self, oauth_flow, outcome, t) ==
    LET flow == CASE oauth_flow.kind = "PasswordFlow" ->
                        connect_password_flow(self, oauth_flow.username,
                                              oauth_flow.password, outcome, t)
                  [] oauth_flow.kind = "AuthCodeFlow" ->
                        connect_authcode_flow(self, oauth_flow.code, outcome, t)
                  [] oauth_flow.kind = "RefreshToken" ->
                        connect_refresh_token(self, oauth_flow.token, outcome, t)
    IN [reqs |-> <<flow.req>>,
        res |-> IF flow.res.ok
                THEN Ok([self EXCEPT !.tag = "Connected", !.connection = Some(OkVal(flow.res))])
                ELSE flow.res]

(***************************************************************************)
(* impl DracoonClient<Connected>                                           *)
(***************************************************************************)
RevokeRequest(self, token_type_hint, token) ==
    [method |-> "POST",
     url |-> Url_join(self.base_url, DRACOON_TOKEN_REVOKE_URL),
     authorization |-> None,
     form |-> [client_id |-> self.client_id, client_secret |-> self.client_secret,
               token_type_hint |-> token_type_hint, token |-> token]]

\* variant: a revoke request answered with a non-2xx status is an error
revoke_acess_token_checks_status(self, outcome) ==
    [req |-> RevokeRequest(self, TOKEN_TYPE_HINT_ACCESS_TOKEN,
                           Unwrap(self.connection).access_token),
     res |-> IF outcome.kind = "transport_error" THEN Err("Reqwest")
             ELSE IF outcome.status >= 200 /\ outcome.status < 300 THEN Ok("unit")
             ELSE Err("Http")]

\* self.http.post(api_url).form(&auth).send().await?; Ok(()): only a request
\* that gets no response is an error, the status of a response is not read
revoke_acess_token(self, outcome) ==
    [req |-> RevokeRequest(self, TOKEN_TYPE_HINT_ACCESS_TOKEN,
                           Unwrap(self.connection).access_token),
     res |-> IF outcome.kind = "transport_error" THEN Err("Reqwest") ELSE Ok("unit")]

revoke_refresh_token(self, outcome) ==
    [req |-> RevokeRequest(self, TOKEN_TYPE_HINT_REFRESH_TOKEN,
                           Unwrap(self.connection).refresh_token),
     res |-> IF outcome.kind = "transport_error" THEN Err("Reqwest") ELSE Ok("unit")]

\* Option<bool>::unwrap_or
unwrap_or(o, d) == IF IsSome(o) THEN Unwrap(o) ELSE d

\* variant: the Disconnected client keeps the token pair
disconnect_keeps_connection(self, opt_access, opt_refresh, outcome1, outcome2) ==
    LET revoke_access == unwrap_or(opt_access, TRUE)
        revoke_refresh == unwrap_or(opt_refresh, FALSE)
        ra == revoke_acess_token(self, outcome1)
        rr == revoke_refresh_token(self, outcome2)
        disconnected == [self EXCEPT !.tag = "Disconnected"]
    IN IF revoke_access /\ ~ra.res.ok
       THEN [reqs |-> <<ra.req>>, outcomes |-> <<outcome1>>, res |-> ra.res]
       ELSE LET sent == IF revoke_access THEN <<ra.req>> ELSE <<>>
                got == IF revoke_access THEN <<outcome1>> ELSE <<>>
            IN IF revoke_refresh
               THEN [reqs |-> Append(sent, rr.req),
                     outcomes |-> Append(got, outcome2),
                     res |-> IF rr.res.ok THEN Ok(disconnected) ELSE rr.res]
               ELSE [reqs |-> sent, outcomes |-> got, res |-> Ok(disconnected)]

\* variant: the Disconnected client loses its redirect URI
disconnect_forgets_redirect_uri(self, opt_access, opt_refresh, outcome1, outcome2) ==
    LET revoke_access == unwrap_or(opt_access, TRUE)
        revoke_refresh == unwrap_or(opt_refresh, FALSE)
        ra == revoke_acess_token(self, outcome1)
        rr == revoke_refresh_token(self, outcome2)
        disconnected == [self EXCEPT !.tag = "Disconnected", !.connection = None,
                                     !.redirect_uri = None]
    IN IF revoke_access /\ ~ra.res.ok
       THEN [reqs |-> <<ra.req>>, outcomes |-> <<outcome1>>, res |-> ra.res]
       ELSE LET sent == IF revoke_access THEN <<ra.req>> ELSE <<>>
                got == IF revoke_access THEN <<outcome1>> ELSE <<>>
            IN IF revoke_refresh
               THEN [reqs |-> Append(sent, rr.req),
                     outcomes |-> Append(got, outcome2),
                     res |-> IF rr.res.ok THEN Ok(disconnected) ELSE rr.res]
               ELSE [reqs |-> sent, outcomes |-> got, res |-> Ok(disconnected)]

\* disconnect: the requests it sends and the Result it returns
disconnect(self, opt_access, opt_refresh, outcome1, outcome2) ==
    LET revoke_access == unwrap_or(opt_access, TRUE)
        revoke_refresh == unwrap_or(opt_refresh, FALSE)
        ra == revoke_acess_token(self, outcome1)
        rr == revoke_refresh_token(self, outcome2)
        disconnected == [self EXCEPT !.tag = "Disconnected", !.connection = None]
    IN IF revoke_access /\ ~ra.res.ok
       THEN [reqs |-> <<ra.req>>, outcomes |-> <<outcome1>>, res |-> ra.res]
       ELSE LET sent == IF revoke_access THEN <<ra.req>> ELSE <<>>
                got == IF revoke_access THEN <<outcome1>> ELSE <<>>
            IN IF revoke_refresh
               THEN [reqs |-> Append(sent, rr.req),
                     outcomes |-> Append(got, outcome2),
                     res |-> IF rr.res.ok THEN Ok(disconnected) ELSE rr.res]
               ELSE [reqs |-> sent, outcomes |-> got, res |-> Ok(disconnected)]

\* the refresh-token request of a Connected client, and its Result<Connection>
Connected_connect_refresh_token(self, outcome, t) ==
    [req |-> TokenRequest(get_token_url(self), None,
                          [grant_type |-> "refresh_token",
                           client_id |-> self.client_id,
                           client_secret |-> self.client_secret,
                           refresh_token |-> Unwrap(self.connection).refresh_token]),
     res |-> TokenResult(outcome, t)]

\* variant: a token counts as valid at the second it expires
check_access_token_validity_inclusive(self, t) ==
    LET connection == Unwrap(self.connection)
    IN num_seconds(t - connection.connected_at) <= connection.expires_in

check_access_token_validity(self, t) ==
    LET connection == Unwrap(self.connection)
    IN num_seconds(t - connection.connected_at) < connection.expires_in

get_refresh_token(self) == Unwrap(self.connection).refresh_token

\* variant: the header is returned whether or not the refresh succeeded
get_auth_header_swallows_error(self, refreshed) ==
    [self |-> self,
     res |-> Ok("Bearer " \o Unwrap(self.connection).access_token)]

\* get_auth_header after its suspension point: refreshed is the Result of
\* connect_refresh_token when the token was not valid, None when it was.
\* The Connection of a successful refresh is dropped: self is not written.
get_auth_header(self, refreshed) ==
    [self |-> self,
     res |-> IF IsSome(refreshed) /\ ~Unwrap(refreshed).ok
             THEN Err(Unwrap(Unwrap(refreshed).err))
             ELSE Ok("Bearer " \o Unwrap(self.connection).access_token)]

(***************************************************************************)
(* impl Dracoon<Disconnected>, impl Dracoon<Connected> (lib.rs).           *)
(***************************************************************************)
\* the answers to the request for the user's keypair; "kp-other" is a
\* keypair that the encryption password does not open
KeypairOutcomes ==
    { Response(200, "kp"), Response(200, "kp-other"), Response(404, "no keypair"),
      TransportError }

\* the answers to a keypair request that is made only with a password
KeypairOutcomesIf(needed) == IF needed THEN KeypairOutcomes ELSE { Response(200, "kp") }

\* UserAccountKeypairs::get_user_keypair (outside src/): the keypair of the
\* answer, opened with the encryption password
get_user_keypair(encryption_secret, outcome) ==
    IF outcome.kind = "transport_error" THEN Err("Reqwest")
    ELSE IF ~(outcome.status >= 200 /\ outcome.status < 300) THEN Err("Http")
    ELSE IF Unwrap(outcome.body) # "kp" THEN Err("CryptoError")
    ELSE Ok([keypair |-> Unwrap(outcome.body), opened_with |-> encryption_secret])

\* variant: the keypair is not fetched
Dracoon_connect_skips_keypair(self, oauth_flow, outcome, kp_outcome, t) ==
    LET client_connect == connect(self.client, oauth_flow, outcome, t)
    IN [reqs |-> client_connect.reqs,
        res |-> IF ~client_connect.res.ok THEN client_connect.res
                ELSE Ok([client |-> OkVal(client_connect.res), user_info |-> None,
                         keypair |-> None, encryption_secret |-> None])]

\* variant: the encryption password stays in the Connected value
Dracoon_connect_keeps_secret(self, oauth_flow, outcome, kp_outcome, t) ==
    LET client_connect == connect(self.client, oauth_flow, outcome, t)
        connected == [client |-> OkVal(client_connect.res), user_info |-> None,
                      keypair |-> None, encryption_secret |-> self.encryption_secret]
        kp == get_user_keypair(Unwrap(connected.encryption_secret), kp_outcome)
    IN [reqs |-> client_connect.reqs,
        res |-> IF ~client_connect.res.ok THEN client_connect.res
                ELSE IF IsSome(connected.encryption_secret)
                THEN IF ~kp.ok THEN kp
                     ELSE Ok([connected EXCEPT !.keypair = Some(OkVal(kp))])
                ELSE Ok(connected)]

\* Dracoon<Disconnected>::connect: the client connects, and with an
\* encryption password the keypair is fetched and the password dropped
Dracoon_connect(self, oauth_flow, outcome, kp_outcome, t) ==
    LET client_connect == connect(self.client, oauth_flow, outcome, t)
        connected == [client |-> OkVal(client_connect.res), user_info |-> None,
                      keypair |-> None, encryption_secret |-> self.encryption_secret]
        kp == get_user_keypair(Unwrap(connected.encryption_secret), kp_outcome)
    IN [reqs |-> client_connect.reqs,
        res |-> IF ~client_connect.res.ok THEN client_connect.res
                ELSE IF IsSome(connected.encryption_secret)
                THEN IF ~kp.ok THEN kp
                     ELSE Ok([connected EXCEPT !.encryption_secret = None,
                                               !.keypair = Some(OkVal(kp))])
                ELSE Ok(connected)]

\* Dracoon<Connected>::get_keypair
get_keypair(self) ==
    IF IsSome(self.keypair) THEN Ok(Unwrap(self.keypair))
    ELSE Err("MissingEncryptionSecret")

(***************************************************************************)
(* public/upload.rs: the values of an upload.                              *)
(***************************************************************************)
\* the largest small file tried, in bytes
MaxSize == 3

\* constants::CHUNK_SIZE: 32 MiB
CHUNK_SIZE == 33554432

\* constants::POLLING_START_DELAY: the first delay of the polling loop, in ms
POLLING_START_DELAY == 300

\* a panic (unimplemented!, todo!, expect, assert_eq!): the call does not return
Panic(msg) == [ok |-> FALSE, val |-> None, err |-> None, panic |-> msg]
IsPanic(r) == "panic" \in DOMAIN r

\* UserUserPublicKey: a recipient and the public key to wrap the file key for
UserUserPublicKey(id, public_key_container) ==
    [id |-> id, public_key_container |-> public_key_container]

\* the public upload shares tried; "malformed" is a public key container
\* that encrypt_file_key cannot use
PublicUploadShares ==
    { [is_encrypted |-> e, user_user_public_key_list |-> None] :
          e \in {None, Some(FALSE), Some(TRUE)} }
    \cup
    { [is_encrypted |-> Some(TRUE), user_user_public_key_list |-> Some(items)] :
          items \in { <<>>,
                      <<UserUserPublicKey(7, "pk7"), UserUserPublicKey(9, "pk9")>>,
                      <<UserUserPublicKey(7, "pk7"), UserUserPublicKey(9, "malformed")>> } }

\* upload_options.file_meta: name and declared size
FileName == "x.txt"
FileSizes == (0..MaxSize) \cup {CHUNK_SIZE + 1}

\* the chunk_size argument; None selects CHUNK_SIZE
ChunkSizes == {None, Some(0), Some(1), Some(2)}

\* what the reader delivers before end of file: the declared size, or less
ReaderLengths(size) ==
    IF size <= MaxSize THEN 0..size ELSE {size - 1, size}

\* S3 answers a PUT with the part's ETag, a digest of the bytes sent
ETags == {"e1", "e2"}

\* the answers of the endpoints an upload talks to
SystemInfoOutcomes ==
    { Response(200, [use_s3_storage |-> u]) : u \in BOOLEAN } \cup { TransportError }
ChannelOutcomes ==
    { Response(201, [upload_id |-> "u1"]), Response(403, "forbidden"), TransportError }
UrlOutcomes ==
    { Response(201, [urls |-> <<"s3url">>]), Response(201, [urls |-> <<>>]),
      Response(404, "not found"), TransportError }
PutOutcomes ==
    { Response(200, e) : e \in ETags } \cup { Response(403, "expired"), TransportError }
FinalizeOutcomes ==
    { Response(202, "accepted"), Response(400, "bad request"), TransportError }
StatusOutcomes ==
    { Response(200, [status |-> st, file_name |-> FileName,
                     error_details |-> IF st = "Error" THEN Some("quota") ELSE None]) :
          st \in {"Transferring", "Finishing", "Done", "Error"} }
    \cup { Response(200, [status |-> "Error", file_name |-> FileName, error_details |-> None]),
           TransportError }
DracoonCryptoOutcomes == { Ok("encrypter"), Err("CryptoError") }

\* a request of an upload, with the answer it got
NoRequest ==
    [kind |-> "", first_part |-> 0, last_part |-> 0, size |-> 0, curr_pos |-> 0,
     direct_s3_upload |-> None, parts |-> <<>>, user_file_keys |-> None,
     answer |-> TransportError]

\* an upload() call that has not been made
NoUpload ==
    [pc |-> "idle", share |-> [is_encrypted |-> None, user_user_public_key_list |-> None],
     size |-> 0, chunk_size_arg |-> None, reader |-> 0,
     fn |-> "", chunk_size |-> 0, count_urls |-> 0, last_chunk_size |-> 0,
     url_part |-> 0, n |-> 0, in_loop |-> FALSE, s3_parts |-> <<>>,
     user_file_keys |-> None, sleep_duration |-> 0, sleeps |-> <<>>,
     result |-> None, panic |-> None]

(***************************************************************************)
(* Collaborators of the uploader that live outside src/ (nodes/upload.rs,  *)
(* utils.rs, public/system_info.rs).                                       *)
(***************************************************************************)
\* variant: one part more than the full chunks, also when nothing is left
\* for it
calculate_s3_url_count_rounds_down(total_size, chunk_size) ==
    IF total_size = 0
    THEN [count_urls |-> 1, last_chunk_size |-> 0]
    ELSE IF chunk_size = 0
    THEN Panic("attempt to divide by zero")
    ELSE LET count == (total_size \div chunk_size) + 1
         IN [count_urls |-> count,
             last_chunk_size |-> total_size - (count - 1) * chunk_size]

\* nodes::upload::calculate_s3_url_count: (count_urls, last_chunk_size)
calculate_s3_url_count(total_size, chunk_size) ==
    IF total_size = 0
    THEN [count_urls |-> 1, last_chunk_size |-> 0]
    ELSE IF chunk_size = 0
    THEN Panic("attempt to divide by zero")
    ELSE LET count == (total_size + chunk_size - 1) \div chunk_size
         IN [count_urls |-> count,
             last_chunk_size |-> total_size - (count - 1) * chunk_size]

\* utils::FromResponse for the API's JSON bodies: 2xx parses the body,
\* anything else is an Http error
from_response(res) ==
    IF res.status >= 200 /\ res.status < 300
    THEN Ok(Unwrap(res.body))
    ELSE Err("Http")

\* DracoonClientError::from_response: the Http error that carries the
\* error body of the response
DracoonClientError_from_response(res) == "Http: " \o Unwrap(res.body)

\* PublicEndpoint::get_system_info
get_system_info(outcome) ==
    IF outcome.kind = "transport_error" THEN Err("Reqwest") ELSE from_response(outcome)

\* StreamUploadInternal::upload_stream_to_s3: PUT of the chunk to the
\* presigned URL; Ok carries the ETag of the response
upload_stream_to_s3(outcome) ==
    IF outcome.kind = "transport_error" THEN Err("Reqwest")
    ELSE IF outcome.status >= 200 /\ outcome.status < 300
         THEN Ok(Unwrap(outcome.body))
         ELSE Err("S3Error")

(***************************************************************************)
(* impl PublicUpload / PublicUploadInternal for PublicEndpoint             *)
(***************************************************************************)
\* the match on (use_s3_storage, is_encrypted) in upload()
upload_fn(use_s3_storage, is_encrypted) ==
    CASE use_s3_storage /\ is_encrypted -> Ok("upload_to_s3_encrypted")
      [] use_s3_storage /\ ~is_encrypted -> Ok("upload_to_s3_unencrypted")
      [] OTHER -> Panic("not implemented: NFS upload not implemented")

\* variant: any answer to the channel request is taken as the channel
create_upload_channel_accepts_any_status(outcome) ==
    IF outcome.kind = "transport_error" THEN Err("Reqwest") ELSE Ok(Unwrap(outcome.body))

\* .send().await? followed by CreateShareUploadChannelResponse::from_response
create_upload_channel(outcome) ==
    IF outcome.kind = "transport_error" THEN Err("Reqwest") ELSE from_response(outcome)

\* .send().await? followed by PresignedUrlList::from_response
create_s3_upload_urls(outcome) ==
    IF outcome.kind = "transport_error" THEN Err("Reqwest") ELSE from_response(outcome)

\* variant: any answer to the finalize request is taken as success
finalize_upload_accepts_any_status(outcome) ==
    IF outcome.kind = "transport_error" THEN Err("Reqwest") ELSE Ok("unit")

\* finalize_upload: a 2xx answer is Ok(()), any other answer the error that
\* DracoonClientError::from_response builds from it
finalize_upload(outcome) ==
    IF outcome.kind = "transport_error" THEN Err("Reqwest")
    ELSE IF outcome.status >= 200 /\ outcome.status < 300
         THEN Ok("unit")
         ELSE Err(DracoonClientError_from_response(outcome))

\* get_upload_status: the body of the function is todo!()
get_upload_status(outcome) == Panic("not yet implemented")

\* variant: reading into an empty buffer is an error
read_exact_rejects_empty(remaining, len) ==
    IF remaining >= len /\ len > 0 THEN Ok(len) ELSE Err("UnexpectedEof")

\* variant: a short read hands over the bytes that are left
read_exact_reads_what_is_left(remaining, len) ==
    IF remaining >= len THEN Ok(len) ELSE Ok(remaining)

\* AsyncReadExt::read_exact on a reader with `remaining` bytes left
read_exact(remaining, len) ==
    IF remaining >= len THEN Ok(len) ELSE Err("UnexpectedEof")

\* DracoonCrypto::encrypt_file_key
encrypt_file_key(plain_file_key, public_key_container) ==
    IF public_key_container = "malformed"
    THEN Err("CryptoError")
    ELSE Ok([key |-> plain_file_key, wrapped_for |-> public_key_container])

UserFileKey(user_id, file_key) == [user_id |-> user_id, file_key |-> file_key]

\* public_keys.items.iter().flat_map(...).collect(): a key that cannot be
\* wrapped yields no entry
user_file_keys(share, plain_file_key) ==
    LET items == IF IsSome(share.user_user_public_key_list)
                 THEN Unwrap(share.user_user_public_key_list) ELSE <<>>
        wrapped(key) == encrypt_file_key(plain_file_key, key.public_key_container)
        kept == SelectSeq(items, LAMBDA key : wrapped(key).ok)
    IN [i \in 1..Len(kept) |-> UserFileKey(kept[i].id, OkVal(wrapped(kept[i])))]

\* the requests, as the uploader builds them
CreateShareUploadChannelRequest(size, direct_s3_upload) ==
    [NoRequest EXCEPT !.kind = "channel", !.size = size,
                      !.direct_s3_upload = direct_s3_upload]
\* variant: the URL is requested for the part after the one read
GeneratePresignedUrlsRequest_next_part(size, first_part, last_part) ==
    [NoRequest EXCEPT !.kind = "urls", !.size = size,
                      !.first_part = first_part + 1, !.last_part = last_part + 1]
\* variant: the URL is requested for one byte more than was read
GeneratePresignedUrlsRequest_one_byte_more(size, first_part, last_part) ==
    [NoRequest EXCEPT !.kind = "urls", !.size = size + 1,
                      !.first_part = first_part, !.last_part = last_part]
GeneratePresignedUrlsRequest(size, first_part, last_part) ==
    [NoRequest EXCEPT !.kind = "urls", !.size = size,
                      !.first_part = first_part, !.last_part = last_part]
PutRequest(size, part) ==
    [NoRequest EXCEPT !.kind = "put", !.size = size,
                      !.first_part = part, !.last_part = part]
\* variant: every part is entered under part number 1
S3FileUploadPart_number_one(part_number, part_etag) ==
    [part_number |-> 1, part_etag |-> part_etag]
S3FileUploadPart(part_number, part_etag) ==
    [part_number |-> part_number, part_etag |-> part_etag]
\* variant: the finalize request never carries file keys
CompleteS3ShareUploadRequest_without_keys(parts, file_keys) ==
    [NoRequest EXCEPT !.kind = "finalize", !.parts = parts]
CompleteS3ShareUploadRequest(parts, file_keys) ==
    [NoRequest EXCEPT !.kind = "finalize", !.parts = parts, !.user_file_keys = file_keys]

\* a product of two u32; it wraps (or, with overflow checks, panics) from
\* 2^32 on, which no part of a file below 4 GiB comes to
u32_mul(a, b) == a * b

\* the start position handed to upload_stream_to_s3 for the part url_part,
\* as each of the four call sites computes it
curr_pos(fn, in_loop, url_part, chunk_size) ==
    CASE fn = "upload_to_s3_unencrypted" /\ in_loop -> u32_mul(url_part - 1, chunk_size)
      [] fn = "upload_to_s3_unencrypted" /\ ~in_loop -> (url_part - 1) * CHUNK_SIZE
      [] fn = "upload_to_s3_encrypted" /\ in_loop -> (url_part - 1) * chunk_size
      [] OTHER -> u32_mul(url_part - 1, CHUNK_SIZE)

\* variant: the file key is not wrapped in the preamble
encrypt_preamble_wraps_no_keys(share, size, reader, crypter) ==
    IF ~crypter.ok THEN crypter
    ELSE IF reader # size
         THEN Panic("assertion failed: enc_bytes.len() == file_meta.1")
         ELSE Ok([crypto_reader |-> reader, user_file_keys |-> <<>>])

\* variant: a share without recipient keys is an error
encrypt_preamble_requires_recipients(share, size, reader, crypter) ==
    IF ~crypter.ok THEN crypter
    ELSE IF reader # size
         THEN Panic("assertion failed: enc_bytes.len() == file_meta.1")
         ELSE IF user_file_keys(share, "plain_file_key") = <<>>
              THEN Err("CryptoError")
              ELSE Ok([crypto_reader |-> reader,
                       user_file_keys |-> user_file_keys(share, "plain_file_key")])

\* the encryption preamble of upload_to_s3_encrypted: the reader is drained
\* and encrypted (length preserving), the length is asserted, and the file
\* key is wrapped for the recipients
encrypt_preamble(share, size, reader, crypter) ==
    IF ~crypter.ok THEN crypter
    ELSE IF reader # size
         THEN Panic("assertion failed: enc_bytes.len() == file_meta.1")
         ELSE Ok([crypto_reader |-> reader,
                  user_file_keys |-> user_file_keys(share, "plain_file_key")])

\* one round of the polling loop on the Result of get_upload_status: what
\* the upload does next and, when it returns, with what
poll_round(status_response) ==
    IF IsPanic(status_response) THEN [next |-> "panic", res |-> status_response]
    ELSE IF ~status_response.ok THEN [next |-> "return", res |-> status_response]
    ELSE LET st == OkVal(status_response)
         IN CASE st.status = "Done" -> [next |-> "return", res |-> Ok(st.file_name)]
              [] st.status = "Error" ->
                   IF IsSome(st.error_details)
                   THEN [next |-> "return",
                         res |-> Err("Http: " \o Unwrap(st.error_details))]
                   ELSE [next |-> "panic",
                         res |-> Panic("Error message must be set if status is error")]
              [] OTHER -> [next |-> "sleep", res |-> status_response]

(***************************************************************************)
(* The state machine.                                                      *)
(***************************************************************************)
OptBool == {None, Some(TRUE), Some(FALSE)}

\* issued_at + expires_in <= t: the token pair is expired at time t
Expired(connection, t) ==
    connection.connected_at + connection.expires_in * TicksPerSec <= t

AllIdle == \A c \in Callers : pc[c] = "idle"

Init ==
    /\ client = NoClient
    /\ now = 0
    /\ log = <<>>
    /\ out = NoOut
    /\ pc = [c \in Callers |-> "idle"]
    /\ ret = [c \in Callers |-> NoReturn]
    /\ up = NoUpload
    /\ ulog = <<>>
    /\ dstate = NoDracoon
    /\ authorize_url = None

\* time passes
Tick ==
    /\ now < MaxTime
    /\ now' = now + 1
    /\ UNCHANGED <<client, log, out, pc, ret, authorize_url>>
    /\ UNCHANGED <<uvars, dstate>>

\* DracoonClientBuilder::build, when the program holds no client
Build(b) ==
    /\ client.tag = "None"
    /\ LET r == build(b)
       IN /\ client' = IF r.ok THEN OkVal(r) ELSE NoClient
          /\ out' = [op |-> "build", args |-> <<b>>, before |-> NoClient,
                     reqs |-> <<>>, outcomes |-> <<>>, ok |-> r.ok, err |-> r.err]
    /\ log' = <<>>
    /\ ret' = [c \in Callers |-> NoReturn]
    /\ authorize_url' = None
    /\ UNCHANGED <<now, pc>>
    /\ UNCHANGED <<uvars, dstate>>

\* DracoonClient<Disconnected>::connect: self is consumed
Connect(oauth_flow) ==
    /\ client.tag = "Disconnected"
    /\ \E outcome \in TokenOutcomes :
         LET r == connect(client, oauth_flow, outcome, now)
         IN /\ client' = IF r.res.ok THEN OkVal(r.res) ELSE NoClient
            /\ log' = r.reqs
            /\ out' = [op |-> "connect", args |-> <<oauth_flow>>,
                       before |-> client, reqs |-> r.reqs,
                       outcomes |-> <<outcome>>,
                       ok |-> r.res.ok, err |-> r.res.err]
    /\ ret' = [c \in Callers |-> NoReturn]
    /\ UNCHANGED <<now, pc, authorize_url>>
    /\ UNCHANGED <<uvars, dstate>>

\* DracoonClient<Connected>::disconnect: self is consumed, which the borrow
\* checker allows only when no get_auth_header call is pending
Disconnect(opt_access, opt_refresh) ==
    /\ client.tag = "Connected"
    /\ AllIdle
    /\ \E outcome1 \in RevokeOutcomesIf(opt_access # Some(FALSE)),
          outcome2 \in RevokeOutcomesIf(opt_refresh = Some(TRUE)) :
         LET r == disconnect(client, opt_access, opt_refresh, outcome1, outcome2)
         IN /\ client' = IF r.res.ok THEN OkVal(r.res) ELSE NoClient
            /\ log' = r.reqs
            /\ out' = [op |-> "disconnect",
                       args |-> <<opt_access, opt_refresh>>,
                       before |-> client, reqs |-> r.reqs,
                       outcomes |-> r.outcomes,
                       ok |-> r.res.ok, err |-> r.res.err]
    /\ ret' = [c \in Callers |-> NoReturn]
    /\ UNCHANGED <<now, pc, authorize_url>>
    /\ UNCHANGED <<uvars, dstate>>

\* get_auth_header up to its suspension point: a valid token is returned at
\* once, otherwise the refresh request is sent and the caller waits
GetAuthHeaderCall(c) ==
    /\ client.tag = "Connected"
    /\ pc[c] = "idle"
    /\ IF check_access_token_validity(client, now)
       THEN LET r == get_auth_header(client, None)
            IN /\ client' = r.self
               /\ ret' = [ret EXCEPT ![c] =
                            [status |-> IF r.res.ok THEN "ok" ELSE "err",
                             res |-> Some(r.res), called_at |-> 0,
                             expired_at_call |->
                                 Expired(Unwrap(r.self.connection), now),
                             connection |-> r.self.connection,
                             outcome |-> None, posts |-> 0]]
               /\ UNCHANGED <<log, pc>>
       ELSE /\ Len(log) < MaxLog
            /\ log' = Append(log, Connected_connect_refresh_token(client, TransportError, now).req)
            /\ pc' = [pc EXCEPT ![c] = "refreshing"]
            /\ ret' = [ret EXCEPT ![c] =
                         [status |-> "pending", res |-> None, called_at |-> now,
                          expired_at_call |-> FALSE,
                          connection |-> None, outcome |-> None, posts |-> 1]]
            /\ UNCHANGED client
    /\ UNCHANGED <<now, out, authorize_url>>
    /\ UNCHANGED <<uvars, dstate>>

\* get_auth_header from the answer to its refresh request to its return
GetAuthHeaderReturn(c) ==
    /\ pc[c] = "refreshing"
    /\ \E outcome \in TokenOutcomes :
         LET refreshed == Connected_connect_refresh_token(client, outcome, now).res
             r == get_auth_header(client, Some(refreshed))
         IN /\ client' = r.self
            /\ ret' = [ret EXCEPT ![c] =
                         [status |-> IF r.res.ok THEN "ok" ELSE "err",
                          res |-> Some(r.res), called_at |-> 0,
                          expired_at_call |->
                              Expired(Unwrap(r.self.connection), ret[c].called_at),
                          connection |-> r.self.connection,
                          outcome |-> Some(outcome), posts |-> ret[c].posts]]
    /\ pc' = [pc EXCEPT ![c] = "idle"]
    /\ UNCHANGED <<now, log, out, authorize_url>>
    /\ UNCHANGED <<uvars, dstate>>

Next ==
    \/ Tick
    \/ \E b \in BuilderConfigs : Build(b)
    \/ \E f \in OAuth2Flows : Connect(f)
    \/ \E a \in OptBool, r \in OptBool : Disconnect(a, r)
    \/ \E c \in Callers : GetAuthHeaderCall(c)
    \/ \E c \in Callers : GetAuthHeaderReturn(c)

Spec == Init /\ [][Next]_vars

(***************************************************************************)
(* The auth-code path: build, get_authorize_url, connect.                  *)
(***************************************************************************)
\* DracoonClient<Disconnected>::get_authorize_url
GetAuthorizeUrl ==
    /\ client.tag = "Disconnected"
    /\ LET r == get_authorize_url(client)
       IN /\ client' = r.self
          /\ authorize_url' = Some(r.url)
    /\ UNCHANGED <<now, log, out, pc, ret>>
    /\ UNCHANGED <<uvars, dstate>>

NextAuthorize ==
    \/ Tick
    \/ \E b \in BuilderConfigs : Build(b)
    \/ GetAuthorizeUrl
    \/ \E f \in OAuth2Flows : Connect(f)

SpecAuthorize == Init /\ [][NextAuthorize]_vars

(***************************************************************************)
(* The builder on its own, over every kind of configuration.               *)
(***************************************************************************)
\* DracoonBuilder::build, when the program holds no client
BuildDracoon(b, encryption_secret) ==
    /\ client.tag = "None"
    /\ LET r == DracoonBuilder_build(b, encryption_secret)
       IN /\ client' = IF r.ok THEN OkVal(r).client ELSE NoClient
          /\ out' = [op |-> "build", args |-> <<b, encryption_secret>>,
                     before |-> NoClient, reqs |-> <<>>, outcomes |-> <<>>,
                     ok |-> r.ok, err |-> r.err]
          /\ dstate' = IF r.ok THEN DracoonFields(OkVal(r)) ELSE NoDracoon
    /\ log' = <<>>
    /\ ret' = [c \in Callers |-> NoReturn]
    /\ authorize_url' = None
    /\ UNCHANGED <<now, pc>>
    /\ UNCHANGED uvars

NextBuilder ==
    \/ Tick
    \/ \E b \in DracoonBuilderConfigs, e \in EncryptionSecrets : BuildDracoon(b, e)

SpecBuilder == Init /\ [][NextBuilder]_vars

(***************************************************************************)
(* A Dracoon value: built, connected, and asked for its keypair.           *)
(***************************************************************************)
\* the Dracoon value the program holds
TheDracoon ==
    [client |-> client, user_info |-> dstate.user_info, keypair |-> dstate.keypair,
     encryption_secret |-> dstate.encryption_secret]

\* Dracoon<Disconnected>::connect: self is consumed
ConnectDracoon(oauth_flow) ==
    /\ client.tag = "Disconnected"
    /\ \E outcome \in TokenOutcomes :
         \E kp_outcome \in KeypairOutcomesIf(outcome.status \in 200..299
                                              /\ IsSome(dstate.encryption_secret)) :
            LET r == Dracoon_connect(TheDracoon, oauth_flow, outcome, kp_outcome, now)
            IN /\ client' = IF r.res.ok THEN OkVal(r.res).client ELSE NoClient
               /\ dstate' = IF r.res.ok THEN DracoonFields(OkVal(r.res)) ELSE NoDracoon
               /\ log' = r.reqs
               /\ out' = [op |-> "connect", args |-> <<oauth_flow>>,
                          before |-> client, reqs |-> r.reqs,
                          outcomes |-> <<outcome, kp_outcome>>,
                          ok |-> r.res.ok, err |-> r.res.err]
    /\ ret' = [c \in Callers |-> NoReturn]
    /\ UNCHANGED <<now, pc, authorize_url>>
    /\ UNCHANGED uvars

\* Dracoon<Connected>::get_keypair
GetKeypair ==
    /\ client.tag = "Connected"
    /\ dstate' = [dstate EXCEPT !.get_keypair = Some(get_keypair(TheDracoon))]
    /\ UNCHANGED avars
    /\ UNCHANGED uvars

NextDracoon ==
    \/ Tick
    \/ \E b \in BuilderConfigs, e \in EncryptionSecrets : BuildDracoon(b, e)
    \/ \E f \in OAuth2Flows : ConnectDracoon(f)
    \/ GetKeypair

SpecDracoon == Init /\ [][NextDracoon]_vars

(***************************************************************************)
(* One upload() call on a public endpoint.  Each action is the code from   *)
(* one request (with its answer) up to the point where the next request    *)
(* is due; a call that has returned or panicked takes no further step.     *)
(***************************************************************************)
Returned(call, res) == [call EXCEPT !.pc = "returned", !.result = Some(res)]
Panicked(call, p) == [call EXCEPT !.pc = "panicked", !.panic = Some(p.panic)]

\* upload(): the system-info request and the choice of the upload function
Upload(share, size, chunk_size_arg, reader) ==
    /\ up.pc = "idle"
    /\ \E outcome \in SystemInfoOutcomes :
         LET info == get_system_info(outcome)
             call == [NoUpload EXCEPT !.share = share, !.size = size,
                                      !.chunk_size_arg = chunk_size_arg,
                                      !.reader = reader]
             is_encrypted == unwrap_or(share.is_encrypted, FALSE)
         IN /\ ulog' = <<[NoRequest EXCEPT !.kind = "system_info", !.answer = outcome]>>
            /\ up' = IF ~info.ok THEN Returned(call, info)
                     ELSE LET f == upload_fn(OkVal(info).use_s3_storage, is_encrypted)
                          IN IF IsPanic(f) THEN Panicked(call, f)
                             ELSE [call EXCEPT !.fn = OkVal(f),
                                               !.pc = IF is_encrypted THEN "encrypt"
                                                      ELSE "channel"]
    /\ UNCHANGED <<avars, dstate>>

\* upload_to_s3_encrypted up to the channel request
EncryptFile ==
    /\ up.pc = "encrypt"
    /\ \E crypter \in DracoonCryptoOutcomes :
         LET enc == encrypt_preamble(up.share, up.size, up.reader, crypter)
         IN up' = IF IsPanic(enc) THEN Panicked(up, enc)
                  ELSE IF ~enc.ok THEN Returned(up, enc)
                  ELSE [up EXCEPT !.pc = "channel",
                                  !.reader = OkVal(enc).crypto_reader,
                                  !.user_file_keys = Some(OkVal(enc).user_file_keys)]
    /\ UNCHANGED ulog
    /\ UNCHANGED <<avars, dstate>>

\* the channel request, and the chunk plan
CreateUploadChannel ==
    /\ up.pc = "channel"
    /\ \E outcome \in ChannelOutcomes :
         LET chunk_size == unwrap_or(up.chunk_size_arg, CHUNK_SIZE)
             file_upload_req ==
                 CreateShareUploadChannelRequest(
                     up.size,
                     IF up.fn = "upload_to_s3_unencrypted" THEN Some(TRUE) ELSE None)
             upload_channel == create_upload_channel(outcome)
             plan == calculate_s3_url_count(up.size, chunk_size)
         IN /\ ulog' = Append(ulog, [file_upload_req EXCEPT !.answer = outcome])
            /\ up' = IF ~upload_channel.ok THEN Returned(up, upload_channel)
                     ELSE IF IsPanic(plan) THEN Panicked(up, plan)
                     ELSE [up EXCEPT !.pc = "urls", !.chunk_size = chunk_size,
                                     !.count_urls = plan.count_urls,
                                     !.last_chunk_size = plan.last_chunk_size,
                                     !.url_part = 1, !.s3_parts = <<>>,
                                     !.in_loop = plan.count_urls > 1 /\ 1 < plan.count_urls]
    /\ UNCHANGED <<avars, dstate>>

\* the read of the next chunk and the request for its presigned URL
RequestUrl ==
    /\ up.pc = "urls"
    /\ \E outcome \in UrlOutcomes :
         LET len == IF up.in_loop THEN up.chunk_size ELSE up.last_chunk_size
             rd == read_exact(up.reader, len)
             n == OkVal(rd)
             url_req == GeneratePresignedUrlsRequest(n, up.url_part, up.url_part)
             url == create_s3_upload_urls(outcome)
         IN IF ~rd.ok
            THEN up' = Returned(up, Err("IoError")) /\ UNCHANGED ulog
            ELSE IF up.in_loop /\ n = 0
            THEN up' = [up EXCEPT !.in_loop = FALSE] /\ UNCHANGED ulog
            ELSE /\ ulog' = Append(ulog, [url_req EXCEPT !.answer = outcome])
                 /\ up' = IF ~url.ok THEN Returned(up, url)
                          ELSE IF OkVal(url).urls = <<>>
                          THEN Panicked(up, Panic("Creating S3 url failed"))
                          ELSE [up EXCEPT !.pc = "put", !.n = n, !.reader = @ - n]
    /\ UNCHANGED <<avars, dstate>>

\* the PUT of the chunk, and the part it adds to the list
PutPart ==
    /\ up.pc = "put"
    /\ \E outcome \in PutOutcomes :
         LET e_tag == upload_stream_to_s3(outcome)
             pos == curr_pos(up.fn, up.in_loop, up.url_part, up.chunk_size)
         IN /\ ulog' = Append(ulog, [PutRequest(up.n, up.url_part) EXCEPT
                                        !.curr_pos = pos, !.answer = outcome])
            /\ up' = IF ~e_tag.ok THEN Returned(up, e_tag)
                     ELSE LET s3_parts == Append(up.s3_parts,
                                                 S3FileUploadPart(up.url_part, OkVal(e_tag)))
                          IN IF up.in_loop
                             THEN [up EXCEPT !.pc = "urls", !.s3_parts = s3_parts,
                                             !.url_part = @ + 1,
                                             !.in_loop = up.url_part + 1 < up.count_urls]
                             ELSE [up EXCEPT !.pc = "finalize", !.s3_parts = s3_parts]
    /\ UNCHANGED <<avars, dstate>>

\* the finalize request
FinalizeUpload ==
    /\ up.pc = "finalize"
    /\ \E outcome \in FinalizeOutcomes :
         LET complete_upload_req == CompleteS3ShareUploadRequest(up.s3_parts, up.user_file_keys)
             done == finalize_upload(outcome)
         IN /\ ulog' = Append(ulog, [complete_upload_req EXCEPT !.answer = outcome])
            /\ up' = IF ~done.ok THEN Returned(up, done)
                     ELSE [up EXCEPT !.pc = "poll",
                                     !.sleep_duration = POLLING_START_DELAY]
    /\ UNCHANGED <<avars, dstate>>

\* one round of the polling loop; sleeps lists the durations slept so far
PollStatus ==
    /\ up.pc = "poll"
    /\ \E outcome \in StatusOutcomes :
         LET status_response == get_upload_status(outcome)
             round == poll_round(status_response)
         IN /\ ulog' = IF IsPanic(status_response) THEN ulog
                       ELSE Append(ulog, [NoRequest EXCEPT !.kind = "status",
                                                           !.answer = outcome])
            /\ up' = CASE round.next = "panic" -> Panicked(up, round.res)
                        [] round.next = "return" -> Returned(up, round.res)
                        [] OTHER -> [up EXCEPT !.sleeps = Append(@, up.sleep_duration),
                                               !.sleep_duration = @ * 2]
    /\ UNCHANGED <<avars, dstate>>

NextUpload ==
    \/ \E share \in PublicUploadShares, size \in FileSizes, chunk_size_arg \in ChunkSizes :
          \E reader \in ReaderLengths(size) :
             /\ (size > MaxSize => chunk_size_arg = None)
             /\ Upload(share, size, chunk_size_arg, reader)
    \/ EncryptFile
    \/ CreateUploadChannel
    \/ RequestUrl
    \/ PutPart
    \/ FinalizeUpload
    \/ PollStatus

SpecUpload == Init /\ [][NextUpload]_vars

\* an upload in progress is a future the runtime keeps driving: whenever the
\* call can take its next step, it eventually does
SpecUploadFair == SpecUpload /\ WF_vars(NextUpload)

(***************************************************************************)
(* Properties of the session manager.                                      *)
(***************************************************************************)
\* the outcome is a 2xx response
Is2xx(outcome) ==
    outcome.kind = "response" /\ outcome.status >= 200 /\ outcome.status < 300

\* caller c's last get_auth_header call made a refresh request that succeeded
RefreshSucceeded(c) == IsSome(ret[c].outcome) /\ Is2xx(Unwrap(ret[c].outcome))

\* caller c's last get_auth_header call made a refresh request that failed
RefreshFailed(c) == IsSome(ret[c].outcome) /\ ~Is2xx(Unwrap(ret[c].outcome))

\* the step is caller c calling get_auth_header on the Connected client
CallStep(c) ==
    /\ client.tag = "Connected"
    /\ pc[c] = "idle"
    /\ out' = out
    /\ ret'[c] # ret[c]

\* C1: a successful get_auth_header() never returns an access token that is
\* expired at the time of the call (issued_at + expires_in <= now).
C1_NeverReturnsExpiredToken ==
    \A c \in Callers :
        ret[c].status = "ok" => ~ret[c].expired_at_call

\* C2: when get_auth_header() is called with an expired token pair and the
\* refresh succeeds, exactly one refresh POST is made, the stored token pair
\* becomes the pair returned by the server and the header carries the new
\* access token.
C2_RefreshInstallsServerPair ==
    \A c \in Callers :
        (pc[c] = "idle" /\ RefreshSucceeded(c)) =>
            LET body == Unwrap(Unwrap(ret[c].outcome).body)
                stored == Unwrap(ret[c].connection)
            IN /\ ret[c].posts = 1
               /\ ret[c].status = "ok"
               /\ stored.access_token = body.access_token
               /\ stored.refresh_token = body.refresh_token
               /\ stored.expires_in = body.expires_in
               /\ ret[c].res = Some(Ok("Bearer " \o body.access_token))

\* C3: when several callers invoke get_auth_header() concurrently on a
\* session whose token is expired, at most one refresh request is in flight
\* at any time.
C3_AtMostOneRefreshInFlight ==
    Cardinality({c \in Callers : pc[c] = "refreshing"}) <= 1

\* C4: when the refresh triggered by get_auth_header() fails, the call
\* returns the error, the session stays Connected with its token pair
\* unchanged, and the next get_auth_header() call attempts the refresh again.
C4_RefreshFailureKeepsSession ==
    [][\A c \in Callers :
          /\ (pc[c] = "refreshing" /\ pc'[c] = "idle" /\ RefreshFailed(c)') =>
                /\ ret'[c].status = "err"
                /\ ret'[c].res =
                     Some(Err(IF Unwrap(ret'[c].outcome).kind = "transport_error"
                              THEN "Reqwest" ELSE "Auth"))
                /\ client' = client
                /\ client'.tag = "Connected"
                /\ IsSome(client'.connection)
          /\ (CallStep(c) /\ RefreshFailed(c)) =>
                /\ pc'[c] = "refreshing"
                /\ Len(log') = Len(log) + 1
                /\ log'[Len(log')].form.grant_type = "refresh_token"
                /\ log'[Len(log')].form.refresh_token
                     = Unwrap(client.connection).refresh_token
      ]_vars

\* a refresh failed, its error was returned and the client is still Connected
C4_Witness ==
    \E c \in Callers :
        /\ pc[c] = "idle" /\ RefreshFailed(c) /\ ret[c].status = "err"
        /\ client.tag = "Connected"

\* C5: the session holds a token pair iff it is Connected; build and
\* disconnect yield a session without a token pair, a successful connect
\* yields one with a token pair.
C5_TokenPairIffConnected ==
    /\ IsSome(client.connection) <=> client.tag = "Connected"
    /\ (out.op \in {"build", "disconnect"} /\ out.ok) =>
            (client.tag = "Disconnected" /\ ~IsSome(client.connection))
    /\ (out.op = "connect" /\ out.ok) =>
            (client.tag = "Connected" /\ IsSome(client.connection))

\* a client that was connected and used has been disconnected
C5_Witness ==
    /\ out.op = "disconnect" /\ out.ok
    /\ IsSome(out.before.connection)
    /\ client.tag = "Disconnected"

\* C6: when the token endpoint answers connect() with a non-2xx response, or
\* the request fails, connect() returns an error and no session holding a
\* token pair exists afterwards.
C6_FailedConnectYieldsNoSession ==
    (out.op = "connect" /\ ~Is2xx(out.outcomes[1])) =>
        /\ ~out.ok
        /\ IsSome(out.err)
        /\ client.tag # "Connected"
        /\ ~IsSome(client.connection)

\* the token endpoint answered the auth code flow with 401
C6_Witness ==
    /\ out.op = "connect"
    /\ out.args[1].kind = "AuthCodeFlow"
    /\ out.outcomes[1].kind = "response" /\ out.outcomes[1].status = 401
    /\ ~out.ok

\* C7: for each of the three flows a connect() whose token request succeeds
\* makes exactly one POST to the token endpoint and yields a Connected
\* session whose access token, refresh token and expires_in are those of the
\* server response; get_refresh_token() returns that refresh token.
C7_ConnectStoresServerTokens ==
    (out.op = "connect" /\ Is2xx(out.outcomes[1])) =>
        LET body == Unwrap(out.outcomes[1].body)
            connection == Unwrap(client.connection)
        IN /\ out.ok
           /\ Len(out.reqs) = 1
           /\ out.reqs[1].method = "POST"
           /\ out.reqs[1].url = [scheme |-> "https", host |-> "mock", path |-> "/oauth/token"]
           /\ client.tag = "Connected"
           /\ connection.access_token = body.access_token
           /\ connection.refresh_token = body.refresh_token
           /\ connection.expires_in = body.expires_in
           /\ get_refresh_token(client) = body.refresh_token

\* a refresh-token connect succeeded with a server pair other than the token sent
C7_Witness ==
    /\ out.op = "connect" /\ out.ok
    /\ out.args[1].kind = "RefreshToken"
    /\ Is2xx(out.outcomes[1])
    /\ Unwrap(out.outcomes[1].body).refresh_token # out.args[1].token
    /\ client.tag = "Connected"

\* C8: while now - issued_at < expires_in in whole seconds (strict),
\* get_auth_header() sends no request and returns "Bearer " followed by the
\* stored access token; at equality the token counts as expired and a
\* request is sent.
C8_ValidTokenNoRequest ==
    [][\A c \in Callers :
          CallStep(c) =>
              LET connection == Unwrap(client.connection)
              IN IF (now - connection.connected_at) \div TicksPerSec < connection.expires_in
                 THEN /\ log' = log
                      /\ pc'[c] = "idle"
                      /\ ret'[c].posts = 0
                      /\ ret'[c].res = Some(Ok("Bearer " \o connection.access_token))
                 ELSE /\ Len(log') = Len(log) + 1
                      /\ pc'[c] = "refreshing"
      ]_vars

\* a header was returned without a request, and the clock stands at the
\* last tick before the token expires
C8_Witness ==
    \E c \in Callers :
        /\ ret[c].status = "ok" /\ ret[c].posts = 0
        /\ ret[c].res = Some(Ok("Bearer " \o Unwrap(client.connection).access_token))
        /\ client.tag = "Connected"
        /\ LET connection == Unwrap(client.connection)
           IN now + 1 = connection.connected_at + connection.expires_in * TicksPerSec

\* C9: disconnect() always ends with a Disconnected session, also when a
\* revoke request fails.
C9_DisconnectAlwaysDisconnects ==
    out.op = "disconnect" => client.tag = "Disconnected"

\* the revoke requests disconnect is asked for, in order
SelectedRevokes(self, opt_access, opt_refresh) ==
    LET connection == Unwrap(self.connection)
        revoke(hint, token) ==
            [method |-> "POST",
             url |-> [scheme |-> "https", host |-> "mock", path |-> "/oauth/revoke"],
             authorization |-> None,
             form |-> [client_id |-> self.client_id,
                       client_secret |-> self.client_secret,
                       token_type_hint |-> hint, token |-> token]]
    IN (IF opt_access = None \/ opt_access = Some(TRUE)
        THEN <<revoke("access_token", connection.access_token)>> ELSE <<>>)
       \o (IF opt_refresh = Some(TRUE)
           THEN <<revoke("refresh_token", connection.refresh_token)>> ELSE <<>>)

\* C10: disconnect(revoke_access, revoke_refresh) sends exactly one revoke
\* POST for each token selected by the two booleans (defaults true, false),
\* with the matching token and token_type_hint, the access token first, and
\* none for an unselected token.
C10_RevokesEachSelectedToken ==
    out.op = "disconnect" =>
        out.reqs = SelectedRevokes(out.before, out.args[1], out.args[2])

\* the configuration a session carries
SessionConfig(self) ==
    [base_url |-> self.base_url, client_id |-> self.client_id,
     client_secret |-> self.client_secret, redirect_uri |-> self.redirect_uri]

\* C11: for as long as the program holds the session that build() produced,
\* through connect, use and disconnect, its base URL, client id, client
\* secret and redirect URI stay what the builder made them, and the session
\* a successful disconnect returns is Disconnected and carries no token pair:
\* it equals the builder's output.
C11_ConfigSurvivesConnectDisconnect ==
    /\ []((out.op = "disconnect" /\ out.ok) =>
            /\ client.tag = "Disconnected"
            /\ client.connection = None
            /\ IsSome(client.redirect_uri))
    /\ [][(client.tag # "None" /\ client'.tag # "None") =>
            SessionConfig(client') = SessionConfig(client)]_vars

\* a built session was connected and then disconnected
C11_Witness ==
    /\ out.op = "disconnect" /\ out.ok
    /\ out.before.tag = "Connected" /\ IsSome(out.before.connection)
    /\ client = [out.before EXCEPT !.tag = "Disconnected", !.connection = None]
    /\ client.base_url = OkVal(Url_parse(MockBase))
    /\ client.redirect_uri = Some(OkVal(Url_parse(AppCallback)))

\* C12: build() fails with MissingBaseUrl, MissingClientId or
\* MissingClientSecret when that field is missing, and with the invalid-URL
\* error when the base URL or the redirect URI does not parse; of several
\* missing fields the base URL is reported first, then the client id, then
\* the client secret; a failed build leaves no session, and a configuration
\* with none of these defects builds.
C12_BuildReportsFirstDefect ==
    out.op = "build" =>
        LET b == out.args[1]
            base_ok == IsSome(b.base_url) /\ Url_parse(Unwrap(b.base_url)).ok
            redirect_ok == IsSome(b.redirect_uri) => Url_parse(Unwrap(b.redirect_uri)).ok
        IN /\ ~IsSome(b.base_url) => out.err = Some("MissingBaseUrl")
           /\ (IsSome(b.base_url) /\ ~base_ok) => out.err = Some("InvalidUrl")
           /\ (base_ok /\ ~IsSome(b.client_id)) => out.err = Some("MissingClientId")
           /\ (base_ok /\ IsSome(b.client_id) /\ ~IsSome(b.client_secret)) =>
                  out.err = Some("MissingClientSecret")
           /\ (base_ok /\ IsSome(b.client_id) /\ IsSome(b.client_secret) /\ ~redirect_ok) =>
                  out.err = Some("InvalidUrl")
           /\ (base_ok /\ IsSome(b.client_id) /\ IsSome(b.client_secret) /\ redirect_ok) =>
                  out.ok
           /\ out.ok <=> out.err = None
           /\ ~out.ok => client.tag = "None"
           /\ out.ok => client.tag = "Disconnected"

\* a build with base URL, client id and client secret all missing has failed
C12_Witness ==
    /\ out.op = "build" /\ ~out.ok
    /\ out.args[1].base_url = None
    /\ out.args[1].client_id = None
    /\ out.args[1].client_secret = None
    /\ out.err = Some("MissingBaseUrl")
    /\ client = NoClient

\* C13: build() rejects a configuration whose client id or client secret is
\* present but empty, and succeeds only when both are non-empty.
C13_BuildRejectsEmptyCredentials ==
    out.op = "build" =>
        LET b == out.args[1]
        IN /\ (b.client_id = Some("") \/ b.client_secret = Some("")) => ~out.ok
           /\ out.ok => (client.client_id # "" /\ client.client_secret # "")

(***************************************************************************)
(* Properties of the public uploader.                                      *)
(***************************************************************************)
\* the requests of one kind the upload has sent
Requests(kind) == SelectSeq(ulog, LAMBDA r : r.kind = kind)

\* the system-info endpoint answered, and said that S3 is not in use
NoS3Storage ==
    /\ up.pc # "idle"
    /\ get_system_info(ulog[1].answer).ok
    /\ ~OkVal(get_system_info(ulog[1].answer)).use_s3_storage

\* C14: when the system-info endpoint reports that S3 storage is not in
\* use, upload() has returned the UnsupportedStorageMode error, for an
\* encrypted share and an unencrypted one alike, and has created no upload
\* channel.
C14_NoS3ReturnsUnsupportedStorageMode ==
    NoS3Storage =>
        /\ up.pc = "returned"
        /\ up.result = Some(Err("UnsupportedStorageMode"))
        /\ Requests("channel") = <<>>

\* the requests after the system-info request
UploadRequests == SubSeq(ulog, 2, Len(ulog))

\* C15: the requests of an upload, encrypted or not, come in the order:
\* channel creation, then for each part i = 1, 2, ... the URL request for
\* part i followed by the PUT of part i, then finalize, then status polls;
\* so no URL request precedes the channel creation, no PUT of a part
\* precedes its URL request, finalize is sent only after the PUT of the last
\* part has succeeded, and polling starts only after finalize.
C15_RequestOrder ==
    /\ \A j \in 1..Len(UploadRequests) :
          LET r == UploadRequests[j]
          IN CASE j = 1 -> r.kind = "channel"
               [] j > 1 /\ j <= 1 + 2 * up.count_urls /\ j % 2 = 0 ->
                    r.kind = "urls" /\ r.first_part = j \div 2 /\ r.last_part = j \div 2
               [] j > 1 /\ j <= 1 + 2 * up.count_urls /\ j % 2 = 1 ->
                    /\ r.kind = "put" /\ r.first_part = (j - 1) \div 2
                    /\ Is2xx(UploadRequests[j - 1].answer)
               [] j = 2 + 2 * up.count_urls ->
                    /\ r.kind = "finalize"
                    /\ Is2xx(UploadRequests[j - 1].answer)
               [] OTHER -> r.kind = "status"
    /\ up.pc = "poll" =>
          /\ Len(UploadRequests) = 2 + 2 * up.count_urls
          /\ Is2xx(ulog[Len(ulog)].answer)

\* an encrypted upload of three parts has been finalized and is about to poll
C15_Witness ==
    /\ up.pc = "poll"
    /\ up.fn = "upload_to_s3_encrypted"
    /\ up.count_urls = 3
    /\ [j \in 1..Len(UploadRequests) |-> UploadRequests[j].kind]
         = <<"channel", "urls", "put", "urls", "put", "urls", "put", "finalize">>

\* the parts list of a finalize request names the parts 1..count_urls once
\* each, ascending, each with the ETag that the PUT of that part returned
PartsMatchPuts(r) ==
    LET puts == Requests("put")
    IN /\ Len(r.parts) = up.count_urls
       /\ Len(puts) = up.count_urls
       /\ \A i \in 1..Len(r.parts) :
             /\ r.parts[i].part_number = i
             /\ puts[i].first_part = i
             /\ r.parts[i].part_etag = Unwrap(puts[i].answer.body)

\* no two parts of a finalize request carry the same ETag
ETagsUnique(r) ==
    \A i, j \in 1..Len(r.parts) :
        i # j => r.parts[i].part_etag # r.parts[j].part_etag

\* C16 as stated: for any upload that reaches finalize, the parts list holds
\* each part number of 1..count_urls exactly once, ascending, each with the
\* ETag returned by the PUT of that part, and the ETags are unique.
C16_PartsAscendingWithUniqueETags ==
    \A k \in 1..Len(ulog) :
        ulog[k].kind = "finalize" => (PartsMatchPuts(ulog[k]) /\ ETagsUnique(ulog[k]))

\* C16 amended: for any upload that reaches finalize, the parts list holds
\* each part number of 1..count_urls exactly once, ascending, each with the
\* ETag returned by the PUT of that part; two parts carry the same ETag when
\* S3 returned the same ETag for both.
C16_PartsAscendingWithTheirETags ==
    \A k \in 1..Len(ulog) :
        ulog[k].kind = "finalize" => PartsMatchPuts(ulog[k])

\* a three-part upload has been finalized with parts whose ETags are e1, e2, e1
C16_Witness ==
    /\ Len(Requests("finalize")) = 1
    /\ Requests("finalize")[1].parts =
           <<S3FileUploadPart(1, "e1"), S3FileUploadPart(2, "e2"), S3FileUploadPart(3, "e1")>>

\* the recipients of the share the upload was called with
Recipients ==
    LET items == IF IsSome(up.share.user_user_public_key_list)
                 THEN Unwrap(up.share.user_user_public_key_list) ELSE <<>>
    IN { items[i].id : i \in 1..Len(items) }

\* C17: for an encrypted upload whose finalize request was accepted, every
\* recipient of the share has an entry in the user_file_keys of that
\* request, also when wrapping the file key failed for some recipient.
C17_EveryRecipientHasFileKey ==
    \A k \in 1..Len(ulog) :
        (ulog[k].kind = "finalize" /\ Is2xx(ulog[k].answer)
           /\ up.fn = "upload_to_s3_encrypted") =>
            /\ IsSome(ulog[k].user_file_keys)
            /\ LET keys == Unwrap(ulog[k].user_file_keys)
               IN Recipients \subseteq { keys[i].user_id : i \in 1..Len(keys) }

\* the finalize request of the upload was sent and accepted
Finalized ==
    \E k \in 1..Len(ulog) : ulog[k].kind = "finalize" /\ Is2xx(ulog[k].answer)

\* the status an answer of the status endpoint reports ("" when it is none)
ReportedStatus(answer) ==
    IF Is2xx(answer) THEN Unwrap(answer.body).status ELSE ""

\* C18: an upload whose finalize was accepted ends only on a status poll:
\* when that poll says Done it has returned the file name of the status
\* response, when it says Error it has returned an Http error carrying the
\* error_details, and no earlier poll had reported Done or Error.
C18_ReturnsOnFirstTerminalStatus ==
    (Finalized /\ up.pc \in {"returned", "panicked"}) =>
        LET last == ulog[Len(ulog)]
        IN /\ last.kind = "status"
           /\ ReportedStatus(last.answer) = "Done" =>
                  /\ up.pc = "returned"
                  /\ up.result = Some(Ok(Unwrap(last.answer.body).file_name))
           /\ (ReportedStatus(last.answer) = "Error"
                 /\ IsSome(Unwrap(last.answer.body).error_details)) =>
                  /\ up.pc = "returned"
                  /\ up.result =
                       Some(Err("Http: " \o Unwrap(Unwrap(last.answer.body).error_details)))
           /\ \A k \in 1..(Len(ulog) - 1) :
                  ulog[k].kind = "status" =>
                      ReportedStatus(ulog[k].answer) \notin {"Done", "Error"}

\* the upload is polling and the last poll reported a non-terminal status
ToldToWait ==
    /\ up.pc = "poll"
    /\ ulog[Len(ulog)].kind = "status"
    /\ ReportedStatus(ulog[Len(ulog)].answer) \in {"Transferring", "Finishing"}

\* C19: every upload whose finalize was accepted goes on to return or to a
\* poll that reported a non-terminal status, again and again until it
\* returns, so it returns if the status endpoint eventually reports Done or
\* Error; and it returns from polling only on a poll that did not report a
\* non-terminal status: there is no timeout.
C19_PollsUntilTerminalStatus ==
    /\ [](Finalized => <>(up.pc = "returned" \/ ToldToWait))
    /\ [][(up.pc = "poll" /\ up'.pc # "poll") =>
            /\ up'.pc = "returned"
            /\ ulog'[Len(ulog')].kind = "status"
            /\ ReportedStatus(ulog'[Len(ulog')].answer) \notin {"Transferring", "Finishing"}]_vars

\* C20: the upload of a zero-byte file gets past the read of its only chunk
\* and issues exactly one presigned-URL request, with size 0 and first_part
\* = last_part = 1, then exactly one PUT, with an empty body, and finalizes
\* with exactly one part.
C20_ZeroByteFileIsOnePart ==
    (up.pc # "idle" /\ up.size = 0) =>
        LET urls == Requests("urls")
            puts == Requests("put")
            finalizes == Requests("finalize")
        IN /\ up.result # Some(Err("IoError"))
           /\ up.pc \in {"urls", "put", "finalize", "poll"} =>
                  (up.count_urls = 1 /\ ~up.in_loop)
           /\ Len(urls) <= 1 /\ Len(puts) <= 1 /\ Len(finalizes) <= 1
           /\ \A i \in 1..Len(urls) :
                  urls[i].size = 0 /\ urls[i].first_part = 1 /\ urls[i].last_part = 1
           /\ \A i \in 1..Len(puts) : puts[i].size = 0 /\ puts[i].first_part = 1
           /\ up.pc \in {"put", "finalize", "poll"} => Len(urls) = 1
           /\ up.pc \in {"finalize", "poll"} => Len(puts) = 1
           /\ \A i \in 1..Len(finalizes) :
                  /\ Len(urls) = 1 /\ Len(puts) = 1
                  /\ Len(finalizes[i].parts) = 1
                  /\ finalizes[i].parts[1].part_number = 1

\* an unencrypted upload of a zero-byte file has been finalized
C20_Witness ==
    /\ up.size = 0
    /\ up.fn = "upload_to_s3_unencrypted"
    /\ up.chunk_size = CHUNK_SIZE
    /\ Len(Requests("urls")) = 1 /\ Len(Requests("put")) = 1
    /\ Len(Requests("finalize")) = 1
    /\ Is2xx(Requests("finalize")[1].answer)

\* the number of bytes the part about to be read requires
PartLength == IF up.in_loop THEN up.chunk_size ELSE up.last_chunk_size

\* C21: in an unencrypted upload, when the reader has fewer bytes left than
\* the part about to be read requires (before the final part or at it), the
\* upload returns IoError at that step without sending a request; an upload
\* that returned IoError has sent a URL request and a PUT for the parts
\* before the short one only, and no finalize request.
C21_ShortReadIsIoError ==
    /\ [][(up.pc = "urls" /\ up.fn = "upload_to_s3_unencrypted"
             /\ up.reader < PartLength) =>
            /\ up'.pc = "returned"
            /\ up'.result = Some(Err("IoError"))
            /\ ulog' = ulog]_vars
    /\ []((up.fn = "upload_to_s3_unencrypted" /\ up.result = Some(Err("IoError"))) =>
            /\ Len(Requests("urls")) = up.url_part - 1
            /\ Len(Requests("put")) = up.url_part - 1
            /\ Requests("finalize") = <<>>
            /\ Requests("status") = <<>>)

\* an unencrypted upload of three parts hit the end of the reader at part 2,
\* a part before the final one
C21_Witness ==
    /\ up.fn = "upload_to_s3_unencrypted"
    /\ up.result = Some(Err("IoError"))
    /\ up.count_urls = 3 /\ up.url_part = 2 /\ up.in_loop
    /\ Len(Requests("put")) = 1

\* C22: when the finalize request is answered with a status that is not
\* 2xx, the upload has returned the Http error built from the body of that
\* answer, and the finalize request stays the last request of the upload:
\* no status poll and no other request follows it.
C22_FailedFinalizeEndsUpload ==
    \A k \in 1..Len(ulog) :
        (ulog[k].kind = "finalize" /\ ulog[k].answer.kind = "response"
           /\ ~Is2xx(ulog[k].answer)) =>
            /\ k = Len(ulog)
            /\ up.pc = "returned"
            /\ up.result = Some(Err("Http: " \o Unwrap(ulog[k].answer.body)))

\* the finalize request of a two-part upload was answered 400
C22_Witness ==
    /\ up.pc = "returned"
    /\ up.count_urls = 2
    /\ ulog[Len(ulog)].kind = "finalize"
    /\ ulog[Len(ulog)].answer = Response(400, "bad request")
    /\ up.result = Some(Err("Http: bad request"))

\* C23: a Connected Dracoon that was built with an encryption password
\* holds the user's keypair once connect() has returned it, and get_keypair()
\* returns that keypair; one built without an encryption password holds no
\* keypair, and get_keypair() returns MissingEncryptionSecret.
C23_KeypairIffEncryptionPassword ==
    /\ [][(client.tag = "Disconnected" /\ client'.tag = "Connected") =>
            IF IsSome(dstate.encryption_secret)
            THEN /\ IsSome(dstate'.keypair)
                 /\ Unwrap(dstate'.keypair).opened_with = Unwrap(dstate.encryption_secret)
            ELSE dstate'.keypair = None]_vars
    /\ [][(client.tag = "Connected" /\ client'.tag = "Connected") =>
            dstate'.keypair = dstate.keypair]_vars
    /\ [](IsSome(dstate.get_keypair) =>
            IF IsSome(dstate.keypair)
            THEN dstate.get_keypair = Some(Ok(Unwrap(dstate.keypair)))
            ELSE dstate.get_keypair = Some(Err("MissingEncryptionSecret")))

\* a Dracoon built with an encryption password is connected and has handed
\* out its keypair
C23_WitnessKeypair ==
    /\ client.tag = "Connected"
    /\ dstate.keypair = Some([keypair |-> "kp", opened_with |-> "secret"])
    /\ dstate.get_keypair = Some(Ok([keypair |-> "kp", opened_with |-> "secret"]))

\* a chunk size the uploader is to reject
RejectedChunkSize(chunk_size_arg) == chunk_size_arg = Some(0)

\* C24: upload() rejects a caller-supplied chunk size of 0 (as it does one
\* that overflows the u32 part numbers or exceeds the per-part limit) with
\* an error before any part is uploaded: no URL request and no PUT is sent,
\* and what the call returns is an error; and without a chunk size the upload
\* works with CHUNK_SIZE, 32 MiB.
C24_RejectsBadChunkSize ==
    /\ (up.pc # "idle" /\ RejectedChunkSize(up.chunk_size_arg)) =>
          /\ Requests("urls") = <<>>
          /\ Requests("put") = <<>>
          /\ up.pc = "returned" => ~Unwrap(up.result).ok
    /\ (up.chunk_size_arg = None /\ up.pc \in {"urls", "put", "finalize", "poll"}) =>
          up.chunk_size = 33554432

(***************************************************************************)
(* C25  One presigned-URL request per part, for the bytes of that part.    *)
(***************************************************************************)
RECURSIVE SumOfSizes(_)
SumOfSizes(reqs) ==
    IF reqs = <<>> THEN 0 ELSE Head(reqs).size + SumOfSizes(Tail(reqs))

\* the parts of the upload are sent, the finalize request is due or was sent
AllPartsSent == up.pc \in {"finalize", "poll"} \/ Requests("finalize") # <<>>

\* C25: the i-th presigned-URL request of an upload is the only one for part
\* i: it has first_part = last_part = i and asks for the bytes read for that
\* part, chunk_size before the last part and last_chunk_size for the last;
\* once all parts are sent there is one URL request per part of the plan and
\* their sizes sum to the declared file size.
C25_OneUrlRequestPerPart ==
    LET urls == Requests("urls")
    IN /\ \A i \in 1..Len(urls) :
            /\ urls[i].first_part = i
            /\ urls[i].last_part = i
            /\ i <= up.count_urls
            /\ urls[i].size = IF i < up.count_urls THEN up.chunk_size
                              ELSE up.last_chunk_size
       /\ AllPartsSent =>
            /\ Len(urls) = up.count_urls
            /\ SumOfSizes(urls) = up.size

\* a three-byte file, sent in chunks of two bytes: a URL request for two
\* bytes and one for the last byte
C25_Witness ==
    /\ AllPartsSent
    /\ up.size = 3
    /\ Len(Requests("urls")) = 2
    /\ Requests("urls")[1].size = 2
    /\ Requests("urls")[2].size = 1

(***************************************************************************)
(* C26  The chunk plan.                                                    *)
(***************************************************************************)
\* the plan of the upload is made
Planned == up.pc \in {"urls", "put", "finalize", "poll"}

\* C26: the plan an upload works with, for a file size and a chunk size
\* above 0, has (count_urls - 1) * chunk_size + last_chunk_size = size and
\* 1 <= last_chunk_size <= chunk_size; a file of chunk_size bytes is one
\* part of chunk_size bytes, a file of chunk_size + 1 bytes is two parts,
\* the last of one byte.
C26_ChunkPlan ==
    (Planned /\ up.size > 0 /\ up.chunk_size > 0) =>
        /\ (up.count_urls - 1) * up.chunk_size + up.last_chunk_size = up.size
        /\ 1 <= up.last_chunk_size
        /\ up.last_chunk_size <= up.chunk_size
        /\ up.size = up.chunk_size =>
               up.count_urls = 1 /\ up.last_chunk_size = up.chunk_size
        /\ up.size = up.chunk_size + 1 =>
               up.count_urls = 2 /\ up.last_chunk_size = 1

\* a file of 32 MiB and one byte with the default chunk size
C26_Witness ==
    /\ Planned /\ up.chunk_size_arg = None
    /\ up.size = up.chunk_size + 1 /\ up.count_urls = 2

(***************************************************************************)
(* C27  direct_s3_upload in the channel request.                           *)
(***************************************************************************)
\* C27: the channel request of an upload, encrypted or not, is built with
\* direct_s3_upload set to true.
C27_ChannelRequestSetsDirectS3Upload ==
    \A i \in 1..Len(Requests("channel")) :
        Requests("channel")[i].direct_s3_upload = Some(TRUE)

(***************************************************************************)
(* C28  The file keys of the finalize request.                             *)
(***************************************************************************)
\* the file key of the upload, wrapped for the recipients of the share
WrappedFileKeys == user_file_keys(up.share, "plain_file_key")

\* C28: the finalize request of an unencrypted upload carries no
\* user_file_keys; that of an encrypted upload carries the wrapped file
\* keys, and the upload holds that list from before its channel request on.
C28_FinalizeCarriesFileKeys ==
    /\ \A i \in 1..Len(Requests("finalize")) :
          Requests("finalize")[i].user_file_keys =
              IF up.fn = "upload_to_s3_unencrypted" THEN None
              ELSE Some(WrappedFileKeys)
    /\ (up.fn = "upload_to_s3_encrypted" /\ Requests("channel") # <<>>) =>
          up.user_file_keys = Some(WrappedFileKeys)

\* an encrypted upload has sent its finalize request with a wrapped key
C28_Witness ==
    /\ up.fn = "upload_to_s3_encrypted"
    /\ Requests("finalize") # <<>>
    /\ WrappedFileKeys # <<>>

(***************************************************************************)
(* C29  The delays of the polling loop.                                    *)
(***************************************************************************)
RECURSIVE Doubled(_, _)
Doubled(delay, times) ==
    IF times = 0 THEN delay ELSE Doubled(2 * delay, times - 1)

\* C29: every round of the polling loop sends a status request, the first
\* one with no sleep before it, and a round whose status is neither Done
\* nor Error then sleeps; the k-th sleep of an upload lasts
\* POLLING_START_DELAY * 2^(k-1) ms, whatever k.
C29_DelayDoublesFromStart ==
    /\ [][up.pc = "poll" =>
            /\ Len(ulog') = Len(ulog) + 1
            /\ ulog'[Len(ulog')].kind = "status"
            /\ Requests("status") = <<>> => up.sleeps = <<>>
            /\ ReportedStatus(ulog'[Len(ulog')].answer) \in {"Transferring", "Finishing"} =>
                   /\ up'.pc = "poll"
                   /\ Len(up'.sleeps) = Len(up.sleeps) + 1]_vars
    /\ [](\A k \in 1..Len(up.sleeps) :
              up.sleeps[k] = Doubled(POLLING_START_DELAY, k - 1))

(***************************************************************************)
(* C30  The start position reported for a part.                            *)
(***************************************************************************)
\* C30: the start position handed over with the PUT of part p, in the loop
\* and for the last part, encrypted or not, is the number of bytes sent
\* before it, (p - 1) * chunk_size, for the default and for a chunk size of
\* the caller.
C30_StartPositionIsBytesSent ==
    \A i \in 1..Len(Requests("put")) :
        LET put == Requests("put")[i]
        IN put.curr_pos = (put.first_part - 1) * up.chunk_size

(***************************************************************************)
(* C31  A reader that ends early, in an encrypted upload.                  *)
(***************************************************************************)
\* the bytes the upload has taken from its reader for the parts
BytesTaken ==
    SumOfSizes(Requests("put")) + (IF up.pc = "put" THEN up.n ELSE 0)

\* the encrypted upload is past its preamble with a reader that delivered
\* less than the declared size (a read error ends the read loop like the
\* end of the file does)
EncryptedShortRead ==
    /\ up.fn = "upload_to_s3_encrypted"
    /\ up.pc # "encrypt"
    /\ up.reader + BytesTaken < up.size

\* C31: an encrypted upload whose reader yields fewer bytes than the
\* declared size has returned an error, and has sent no channel, URL, PUT
\* or finalize request.
C31_EncryptedShortReadIsError ==
    EncryptedShortRead =>
        /\ up.pc = "returned"
        /\ ~Unwrap(up.result).ok
        /\ \A k \in {"channel", "urls", "put", "finalize"} : Requests(k) = <<>>

(***************************************************************************)
(* C32  Where the token request carries the client credentials.            *)
(***************************************************************************)
\* the Authorization header "Basic <client credentials>" of a session
BasicAuthorization(self) ==
    Some([scheme |-> "Basic", credentials |-> client_credentials(self)])

\* C32: the token request of a connect() with the Password flow or the
\* AuthCode flow has the Authorization header "Basic" with the client
\* credentials; that of a connect() with the RefreshToken flow has no
\* Authorization header and has client id and client secret in its form.
C32_CredentialsBasicOrForm ==
    out.op = "connect" =>
        LET req == out.reqs[1]
            self == out.before
            flow == out.args[1].kind
        IN /\ flow \in {"PasswordFlow", "AuthCodeFlow"} =>
                  req.authorization = BasicAuthorization(self)
           /\ flow = "RefreshToken" =>
                  /\ req.authorization = None
                  /\ req.form.client_id = self.client_id
                  /\ req.form.client_secret = self.client_secret

(***************************************************************************)
(* C33  The redirect URI of the authorize URL and of the AuthCode flow.    *)
(***************************************************************************)
\* the redirect URI in effect for a builder configuration: the one given,
\* {base}/oauth/callback otherwise
EffectiveRedirect(b) ==
    IF IsSome(b.redirect_uri) THEN Url_as_str(OkVal(Url_parse(Unwrap(b.redirect_uri))))
    ELSE Url_as_str(OkVal(Url_parse(Unwrap(b.base_url)))) \o "oauth/callback"

\* C33: the session build() returns holds the configured redirect URI, or
\* {base}/oauth/callback when none was given; get_authorize_url() puts the
\* redirect URI of the session into the URL, leaves every other field of
\* the session and the redirect URI in effect as they are, and returns the
\* same URL when called again; the AuthCode token request sends the
\* redirect URI that the authorize URL of the session names.
C33_RedirectUriOfAuthorizeUrl ==
    /\ []((out.op = "build" /\ out.ok /\ client.tag = "Disconnected") =>
            Url_as_str(Unwrap(client.redirect_uri)) = EffectiveRedirect(out.args[1]))
    /\ [][authorize_url' # authorize_url /\ IsSome(authorize_url') =>
            /\ SessionConfig(client') = SessionConfig(client)
            /\ client'.connection = client.connection
            /\ client'.tag = client.tag
            /\ Unwrap(authorize_url').query.redirect_uri.of =
                  Url_as_str(Unwrap(client.redirect_uri))
            /\ authorize_url = None]_vars
    /\ []((out.op = "connect" /\ out.args[1].kind = "AuthCodeFlow"
             /\ IsSome(authorize_url)) =>
            Url_as_str(out.reqs[1].form.redirect_uri) =
                Unwrap(authorize_url).query.redirect_uri.of)

\* a session built without a redirect URI gave out its authorize URL and was
\* then connected with the AuthCode flow
C33_Witness ==
    /\ out.op = "connect" /\ out.ok
    /\ out.args[1].kind = "AuthCodeFlow"
    /\ IsSome(authorize_url)
    /\ Unwrap(authorize_url).query.redirect_uri.of = "https://mock/oauth/callback"

(***************************************************************************)
(* C34  The encryption password of a Connected Dracoon.                    *)
(***************************************************************************)
\* C34: a Connected Dracoon holds no encryption password; a connect() that
\* succeeds yields a keypair exactly when the Dracoon was built with an
\* encryption password; and a connect() whose token request succeeds but
\* whose keypair cannot be fetched or opened returns that error and leaves
\* no Connected Dracoon.
C34_NoPasswordOnceConnected ==
    /\ [](client.tag = "Connected" => dstate.encryption_secret = None)
    /\ [][(client.tag = "Disconnected" /\ client'.tag # "Disconnected") =>
            /\ out'.ok => /\ client'.tag = "Connected"
                          /\ IsSome(dstate'.keypair) <=> IsSome(dstate.encryption_secret)
            /\ ~out'.ok => client'.tag = "None" /\ dstate' = NoDracoon
            /\ (Is2xx(out'.outcomes[1]) /\ IsSome(dstate.encryption_secret)) =>
                  LET kp == get_user_keypair(Unwrap(dstate.encryption_secret),
                                             out'.outcomes[2])
                  IN ~kp.ok => ~out'.ok /\ out'.err = kp.err]_vars

\* a Dracoon built with an encryption password is connected: it has the
\* keypair and no longer the password
C34_Witness ==
    /\ client.tag = "Connected"
    /\ out.op = "connect" /\ out.ok
    /\ IsSome(dstate.keypair)
    /\ dstate.encryption_secret = None
    /\ dstate.get_keypair = None

(***************************************************************************)
(* C35  The encryption preamble comes before the upload requests.          *)
(***************************************************************************)
\* C35: while an encrypted upload is in its preamble it has sent nothing
\* but the system-info request of upload(); when it sends a channel, URL,
\* PUT or later request, the reader has been read to the declared size and
\* the wrapped file keys are there.
C35_PreambleBeforeRequests ==
    /\ []((up.fn = "upload_to_s3_encrypted" /\ up.pc = "encrypt") =>
            UploadRequests = <<>>)
    /\ [][(up.fn = "upload_to_s3_encrypted" /\ Len(ulog') > Len(ulog)) =>
            /\ up.pc # "encrypt"
            /\ up.reader + BytesTaken = up.size
            /\ up.user_file_keys = Some(WrappedFileKeys)]_vars

\* an encrypted upload of a non-empty file to a share with a recipient has
\* sent its channel request
C35_Witness ==
    /\ up.fn = "upload_to_s3_encrypted"
    /\ up.size > 0
    /\ Len(Requests("channel")) = 1
    /\ Requests("urls") = <<>>
    /\ IsSome(up.user_file_keys) /\ Unwrap(up.user_file_keys) # <<>>

(***************************************************************************)
(* C36  A failed channel, URL or PUT request ends the upload.              *)
(***************************************************************************)
\* what the uploader makes of the answer to a channel, URL or PUT request
StepResult(r) ==
    CASE r.kind = "channel" -> create_upload_channel(r.answer)
      [] r.kind = "urls" -> create_s3_upload_urls(r.answer)
      [] r.kind = "put" -> upload_stream_to_s3(r.answer)

\* the request got no answer, or an answer that is not 2xx
FailedRequest(r) == r.answer.kind = "transport_error" \/ ~Is2xx(r.answer)

\* C36: a channel, URL or PUT request that failed is the last request of
\* its upload, and the upload has returned the error of that request.
C36_FailedStepEndsUpload ==
    \A i \in 1..Len(ulog) :
        (ulog[i].kind \in {"channel", "urls", "put"} /\ FailedRequest(ulog[i])) =>
            /\ i = Len(ulog)
            /\ up.pc = "returned"
            /\ ~Unwrap(up.result).ok
            /\ up.result = Some(StepResult(ulog[i]))

\* the URL request for the second part failed after the first part was sent
C36_Witness ==
    /\ Len(Requests("put")) = 1
    /\ ulog[Len(ulog)].kind = "urls"
    /\ ulog[Len(ulog)].first_part = 2
    /\ FailedRequest(ulog[Len(ulog)])
    /\ up.pc = "returned"

(***************************************************************************)
(* C37  upload() does not abort.                                           *)
(***************************************************************************)
\* C37: whatever the endpoints answer and the reader delivers, upload()
\* never panics: a call that has ended has returned Ok or Err.
C37_UploadNeverPanics ==
    /\ up.pc # "panicked"
    /\ up.panic = None

(***************************************************************************)
(* C38  An encrypted upload to a share without recipient keys.             *)
(***************************************************************************)
\* an encrypted upload to a share whose public-key list is absent or empty
NoRecipientKeys == up.fn = "upload_to_s3_encrypted" /\ Recipients = {}

\* C38: an encrypted upload to a share without recipient keys gets through
\* its preamble with an empty list of file keys, sends that empty list with
\* its finalize request, and when it returns an error, then because the
\* encrypter could not be set up or because its last request failed.
C38_NoRecipientKeysIsNoError ==
    NoRecipientKeys =>
        /\ encrypt_preamble(up.share, up.size, up.size, Ok("encrypter")) =
               Ok([crypto_reader |-> up.size, user_file_keys |-> <<>>])
        /\ up.pc \in {"channel", "urls", "put", "finalize", "poll"} =>
               up.user_file_keys = Some(<<>>)
        /\ \A i \in 1..Len(Requests("finalize")) :
               Requests("finalize")[i].user_file_keys = Some(<<>>)
        /\ (up.pc = "returned" /\ ~Unwrap(up.result).ok) =>
               \/ UploadRequests = <<>> /\ up.result = Some(Err("CryptoError"))
               \/ UploadRequests # <<>> /\ FailedRequest(ulog[Len(ulog)])

\* an encrypted two-part upload to a share without a public-key list has
\* sent its finalize request
C38_Witness ==
    /\ NoRecipientKeys
    /\ up.share.user_user_public_key_list = None
    /\ Len(Requests("put")) = 2
    /\ Len(Requests("finalize")) = 1
    /\ Requests("finalize")[1].user_file_keys = Some(<<>>)

(***************************************************************************)
(* C39  What disconnect() takes for a failed revoke.                       *)
(***************************************************************************)
\* one of the revoke requests of the last disconnect got no answer
RevokeUnanswered ==
    \E i \in 1..Len(out.outcomes) : out.outcomes[i].kind = "transport_error"

\* C39: disconnect() returns an error exactly when one of its revoke
\* requests could not be sent or answered; when every revoke request was
\* answered, 2xx or not, it returns a Disconnected session without a token
\* pair.
C39_RevokeStatusIsNotRead ==
    out.op = "disconnect" =>
        /\ ~out.ok <=> RevokeUnanswered
        /\ ~out.ok => out.err = Some("Reqwest") /\ client.tag = "None"
        /\ out.ok => client.tag = "Disconnected" /\ client.connection = None

\* a disconnect whose revoke request was answered with a 400 has returned a
\* Disconnected session
C39_Witness ==
    /\ out.op = "disconnect" /\ out.ok
    /\ Len(out.outcomes) >= 1
    /\ out.outcomes[1].kind = "response" /\ out.outcomes[1].status = 400
    /\ client.tag = "Disconnected"
====
